---- MODULE Spec2Model ----
(***************************************************************************)
(* AnimeVault: the Jikan API client (request cache and rate limiter), the  *)
(* localStorage wrapper and the detail-page controller, as state machines. *)
(*                                                                         *)
(* JavaScript runs every handler to completion: one action of this module  *)
(* is one synchronous segment of the code, from the point where it is      *)
(* entered (a call, a timer, a settled promise) to its next await.         *)
(***************************************************************************)
EXTENDS Integers, Sequences, FiniteSets, TLC

VARIABLES
    now,              \* Date.now(), in milliseconds
    ticks,            \* how many times the clock has advanced
    lastRequestTime,  \* JikanAPI.lastRequestTime
    cache,            \* JikanAPI.cache: a Map, kept in insertion order
    calls,            \* the JikanAPI.request invocations, by call number
    ls,               \* localStorage: the four animeVault_* entries
    ops,              \* how many Storage methods have been called
    lastOp,           \* the last Storage call: method, argument, return value
    prevOp,           \* the Storage call before the last one
    page,             \* the controller of the page that is open (AnimeDetailPage,
                      \* AnimeVaultApp, or the search box of UIComponents): its fields
    subs,             \* the loads that controller has started and awaits
    dom               \* the elements that controller writes, and loadingStates

apiVars == <<now, ticks, lastRequestTime, cache, calls>>

storeVars == <<ls, ops, lastOp, prevOp>>

detailVars == <<page, subs, dom>>

vars == <<now, ticks, lastRequestTime, cache, calls, ls, ops, lastOp, prevOp,
          page, subs, dom>>

---------------------------------------------------------------------------
(* Bounds of the model.                                                    *)

MaxCalls == 2
MaxTicks == 2
MaxOps == 3

---------------------------------------------------------------------------
(* JikanAPI                                                                *)

rateLimitDelay == 1000
cacheTimeout == 300000
cacheLimit == 100

\* Endpoint strings (path plus query parameters), numbered.
Endpoints == {1, 2}

\* The steps by which the clock advances: half the throttle interval, and
\* the cache window less that half, so that an age of exactly cacheTimeout
\* and a gap of exactly rateLimitDelay both occur.
TickSteps == {rateLimitDelay \div 2, cacheTimeout - rateLimitDelay \div 2}

\* Parsed JSON bodies: null (falsy) or an object (truthy).
Null == [json |-> "null"]
JsonObject(list) == [json |-> "object", data |-> list]
Payloads == {Null, JsonObject(<<>>)}
Truthy(d) == d # Null
\* A body that is no JSON: response.json() rejects with a SyntaxError.
Unparsable == [json |-> "unparsable"]

NoTime == 0 - 1

\* The values an async function's promise takes.
Pending == [state |-> "pending"]
Fulfilled(v) == [state |-> "fulfilled", value |-> v]
Rejected(err) == [state |-> "rejected", reason |-> err]

IdleCall ==
    [pc |-> "idle", endpoint |-> 0, useCache |-> FALSE, started |-> NoTime,
     wakeAt |-> NoTime, fetchedAt |-> NoTime, promise |-> Pending]

\* Map.get / Map.delete / Map.set on the insertion-ordered cache.
CacheHas(c, key) == \E i \in 1..Len(c) : c[i].key = key
CacheGet(c, key) == c[CHOOSE i \in 1..Len(c) : c[i].key = key]
CacheDelete(c, key) == SelectSeq(c, LAMBDA en : en.key # key)
CacheSet(c, key, val) ==
    IF CacheHas(c, key)
    THEN [i \in 1..Len(c) |-> IF c[i].key = key THEN val ELSE c[i]]
    ELSE Append(c, val)

\* getCachedData with the age test written <= (an entry of exactly
\* cacheTimeout still served).
getCachedData_AgeLe(c, key, t) ==
    IF CacheHas(c, key) /\ t - CacheGet(c, key).timestamp <= cacheTimeout
    THEN [data |-> CacheGet(c, key).data, cache |-> c]
    ELSE [data |-> Null, cache |-> CacheDelete(c, key)]

\* getCachedData with the age test inverted.
getCachedData_AgeGt(c, key, t) ==
    IF CacheHas(c, key) /\ t - CacheGet(c, key).timestamp > cacheTimeout
    THEN [data |-> CacheGet(c, key).data, cache |-> c]
    ELSE [data |-> Null, cache |-> CacheDelete(c, key)]

\* getCachedData(key) at time t: the payload returned (Null for none) and
\* the cache it leaves.
getCachedData(c, key, t) ==
    IF CacheHas(c, key) /\ t - CacheGet(c, key).timestamp < cacheTimeout
    THEN [data |-> CacheGet(c, key).data, cache |-> c]
    ELSE [data |-> Null, cache |-> CacheDelete(c, key)]

\* setCachedData that, over the limit, deletes the entry with the oldest
\* timestamp in place of the first key of the Map.
setCachedData_EvictsStalest(c, key, data, t) ==
    LET put == CacheSet(c, key, [key |-> key, data |-> data, timestamp |-> t])
        stalest == CHOOSE i \in 1..Len(put) :
                       \A j \in 1..Len(put) : put[i].timestamp <= put[j].timestamp
    IN  IF Len(put) > cacheLimit THEN CacheDelete(put, put[stalest].key) ELSE put

\* setCachedData(key, data) at time t.
setCachedData(c, key, data, t) ==
    LET put == CacheSet(c, key, [key |-> key, data |-> data, timestamp |-> t])
    IN  IF Len(put) > cacheLimit THEN Tail(put) ELSE put

\* The lookup made whether or not the caller asked for the cache.
cachedLookup_IgnoresFlag(c, key, uc, t) == getCachedData(c, key, t)

\* request() lines 63-70: the cache is consulted only if (useCache).
cachedLookup(c, key, uc, t) ==
    IF uc THEN getCachedData(c, key, t) ELSE [data |-> Null, cache |-> c]

\* rateLimitedRequest: how long the call sleeps before it dispatches.
rateLimitWait(t, last) ==
    IF t - last < rateLimitDelay THEN rateLimitDelay - (t - last) ELSE 0

\* The two return statements of request().
SuccessResult(data) == [success |-> TRUE, data |-> data]
FailureResult(message, endpoint) ==
    [success |-> FALSE, error |-> message, endpoint |-> endpoint]

\* request() without its catch: a thrown error rejects the promise.
requestSettle_NoCatch(outcome, endpoint) ==
    IF outcome.kind = "throw"
    THEN Rejected(outcome.error)
    ELSE Fulfilled(outcome.value)

\* request()'s try/catch: what the async function settles to when its body
\* returns a value or throws.
requestSettle(outcome, endpoint) ==
    IF outcome.kind = "throw"
    THEN Fulfilled(FailureResult(outcome.error, endpoint))
    ELSE Fulfilled(outcome.value)

Return(v) == [kind |-> "return", value |-> v]
Throw(err) == [kind |-> "throw", error |-> err]

\* lastRequestTime = Date.now(); return fetch(url): the call is outbound
\* from this moment (fetchedAt).
Dispatch(call) == [call EXCEPT !.pc = "inflight", !.wakeAt = NoTime, !.fetchedAt = now]

\* request(endpoint, useCache), up to its first await.
Request(c, e, uc) ==
    /\ calls[c].pc = "idle"
    /\ IF c = 1 THEN TRUE ELSE calls[c - 1].pc # "idle"
    /\ LET look == cachedLookup(cache, e, uc, now)
           wait == rateLimitWait(now, lastRequestTime)
           base == [calls[c] EXCEPT !.endpoint = e, !.useCache = uc,
                                    !.started = now]
       IN  /\ cache' = look.cache
           /\ IF Truthy(look.data)
              THEN /\ calls' = [calls EXCEPT ![c] =
                          [base EXCEPT !.pc = "done",
                               !.promise = requestSettle(
                                   Return(SuccessResult(look.data)), e)]]
                   /\ UNCHANGED lastRequestTime
              ELSE IF wait > 0
              THEN /\ calls' = [calls EXCEPT ![c] =
                          [base EXCEPT !.pc = "waiting",
                                       !.wakeAt = now + wait]]
                   /\ UNCHANGED lastRequestTime
              ELSE /\ calls' = [calls EXCEPT ![c] = Dispatch(base)]
                   /\ lastRequestTime' = now
    /\ UNCHANGED <<now, ticks, storeVars, detailVars>>

\* The setTimeout of rateLimitedRequest fires, at its time or later.
TimerFires(c) ==
    /\ calls[c].pc = "waiting"
    /\ now >= calls[c].wakeAt
    /\ calls' = [calls EXCEPT ![c] = Dispatch(@)]
    /\ lastRequestTime' = now
    /\ UNCHANGED <<now, ticks, cache, storeVars, detailVars>>

\* A request() that stores in the cache, before it tests response.ok,
\* whatever came back.
FetchSettles_CachesFailure(c, how) ==
    /\ calls[c].pc = "inflight"
    /\ calls' = [calls EXCEPT ![c] =
          IF how = "ok"
          THEN [@ EXCEPT !.pc = "parsing"]
          ELSE [@ EXCEPT !.pc = "done",
                         !.promise = requestSettle(Throw(how),
                                                   calls[c].endpoint)]]
    /\ cache' = IF how # "ok" /\ calls[c].useCache
                THEN setCachedData(cache, calls[c].endpoint,
                                   [json |-> "error"], now)
                ELSE cache
    /\ UNCHANGED <<now, ticks, lastRequestTime, storeVars, detailVars>>

\* A request() that tries again after a failed fetch: it goes back to the
\* rate limiter and sleeps one more interval.
FetchSettles_Retries(c, how) ==
    /\ calls[c].pc = "inflight"
    /\ calls' = [calls EXCEPT ![c] =
          IF how = "ok"
          THEN [@ EXCEPT !.pc = "parsing"]
          ELSE [@ EXCEPT !.pc = "waiting", !.wakeAt = now + rateLimitDelay]]
    /\ UNCHANGED <<now, ticks, lastRequestTime, cache, storeVars, detailVars>>

\* fetch(url) settles: a 2xx response, another status, or a transport
\* failure (the promise rejects).
FetchSettles(c, how) ==
    /\ calls[c].pc = "inflight"
    /\ calls' = [calls EXCEPT ![c] =
          IF how = "ok"
          THEN [@ EXCEPT !.pc = "parsing"]
          ELSE [@ EXCEPT !.pc = "done",
                         !.promise = requestSettle(Throw(how),
                                                   calls[c].endpoint)]]
    /\ UNCHANGED <<now, ticks, lastRequestTime, cache, storeVars, detailVars>>

\* response.json() settles: a parsed body, or a SyntaxError.
JsonSettles(c, body) ==
    /\ calls[c].pc = "parsing"
    /\ LET e == calls[c].endpoint
           outcome == IF body = Unparsable THEN Throw("SyntaxError")
                      ELSE Return(SuccessResult(body))
       IN  /\ calls' = [calls EXCEPT ![c].pc = "done",
                                     ![c].promise = requestSettle(outcome, e)]
           /\ cache' = IF body # Unparsable /\ calls[c].useCache /\ Truthy(body)
                       THEN setCachedData(cache, e, body, now)
                       ELSE cache
    /\ UNCHANGED <<now, ticks, lastRequestTime, storeVars, detailVars>>

\* Time passes.
Tick(d) ==
    /\ ticks < MaxTicks
    /\ now' = now + d
    /\ ticks' = ticks + 1
    /\ UNCHANGED <<lastRequestTime, cache, calls, storeVars, detailVars>>

NoOp == [op |-> "none", arg |-> 0, ret |-> "undefined"]

\* The detail page, where it is not open.
DetailUnused ==
    /\ page = <<>>
    /\ subs = <<>>
    /\ dom = <<>>

\* The store, where only the API client is exercised.
StoreUnused ==
    /\ ls = <<>>
    /\ ops = 0
    /\ lastOp = NoOp
    /\ prevOp = NoOp

\* The state after `new JikanAPI()`. Date.now() is far beyond
\* rateLimitDelay; only differences of times are ever used.
InitApi ==
    /\ now = rateLimitDelay
    /\ ticks = 0
    /\ lastRequestTime = 0
    /\ cache = <<>>
    /\ calls = [c \in 1..MaxCalls |-> IdleCall]
    /\ StoreUnused
    /\ DetailUnused

NextApi ==
    \/ \E c \in 1..MaxCalls, e \in Endpoints, uc \in BOOLEAN : Request(c, e, uc)
    \/ \E c \in 1..MaxCalls : TimerFires(c)
    \/ \E c \in 1..MaxCalls, how \in {"ok", "non2xx", "transport"} : FetchSettles(c, how)
    \/ \E c \in 1..MaxCalls, body \in Payloads \cup {Unparsable} : JsonSettles(c, body)
    \/ \E d \in TickSteps : Tick(d)

SpecApi == InitApi /\ [][NextApi]_vars

\* The client once an earlier request (for instance the one loadFeaturedCarousel
\* awaits before loadTrendingAnime runs) has just been dispatched and has
\* settled: lastRequestTime is the present moment.
InitApiWarm ==
    /\ now = rateLimitDelay
    /\ ticks = 0
    /\ lastRequestTime = now
    /\ cache = <<>>
    /\ calls = [c \in 1..MaxCalls |-> IdleCall]
    /\ StoreUnused
    /\ DetailUnused

SpecApiWarm == InitApiWarm /\ [][NextApi]_vars

\* The cache after n responses were stored, one per second, for the
\* endpoints 3, 4, ...; the entry of endpoint 3 was stored a second time
\* (two requests for it were in flight together), which renews its
\* timestamp and leaves it the first key of the Map.
FirstCached == 3
SavedCache(n) ==
    [i \in 1..n |->
        [key |-> FirstCached + i - 1, data |-> JsonObject(<<>>),
         timestamp |-> IF i = 1 THEN n * rateLimitDelay ELSE i * rateLimitDelay]]

\* The client with its cache at the limit, or one entry short of it.
InitApiFull ==
    /\ \E n \in {cacheLimit - 1, cacheLimit} :
          /\ cache = SavedCache(n)
          /\ lastRequestTime = n * rateLimitDelay
          /\ now = n * rateLimitDelay + rateLimitDelay
    /\ ticks = 0
    /\ calls = [c \in 1..MaxCalls |-> IdleCall]
    /\ StoreUnused
    /\ DetailUnused

\* Cached requests, for an endpoint that is not in the cache and for the
\* first one cached.
FullEndpoints == {1, FirstCached}
NextApiFull ==
    \/ \E c \in 1..MaxCalls, e \in FullEndpoints : Request(c, e, TRUE)
    \/ \E c \in 1..MaxCalls : TimerFires(c)
    \/ \E c \in 1..MaxCalls, how \in {"ok", "non2xx", "transport"} : FetchSettles(c, how)
    \/ \E c \in 1..MaxCalls, body \in Payloads \cup {Unparsable} : JsonSettles(c, body)
    \/ \E d \in TickSteps : Tick(d)

SpecApiFull == InitApiFull /\ [][NextApiFull]_vars

---------------------------------------------------------------------------
(* Storage (the localStorage wrapper)                                      *)

favoritesLimit == 100
searchHistoryLimit == 20
viewHistoryLimit == 50

\* A localStorage entry: missing (getItem gives null), or the JSON text of
\* a value, held here as the value JSON.parse gives back. The text of an
\* array or an object is never the empty string, so a present entry is
\* always truthy in init()'s test.
Missing == [present |-> FALSE, value |-> <<>>]
Stored(v) == [present |-> TRUE, value |-> v]

\* this.keys, in declaration order.
StoreKeys == <<"FAVORITES", "SEARCH_HISTORY", "PREFERENCES", "VIEW_HISTORY">>

DefaultPreferences ==
    [theme |-> "dark", autoplay |-> TRUE, notifications |-> TRUE,
     language |-> "en"]

\* What init() writes under a key that is missing.
InitialValue(k) == IF k = "PREFERENCES" THEN DefaultPreferences ELSE <<>>

\* init() on the store st. Its setItem calls are not guarded: the write of
\* the failKey-th key (0: none) throws if it is attempted, and the keys
\* after it are not reached.
initThrows(st, failKey) == failKey # 0 /\ ~st[StoreKeys[failKey]].present

\* init() that writes the initial value under every key, present or not.
init_Overwrites(st, failKey) ==
    [k \in DOMAIN st |->
        IF failKey # 0 /\ (CHOOSE i \in 1..4 : StoreKeys[i] = k) >= failKey
        THEN st[k]
        ELSE Stored(InitialValue(k))]

init(st, failKey) ==
    [k \in DOMAIN st |->
        IF st[k].present THEN st[k]
        ELSE IF initThrows(st, failKey)
                /\ (CHOOSE i \in 1..4 : StoreKeys[i] = k) >= failKey
        THEN Missing
        ELSE Stored(InitialValue(k))]

\* set(key, value): the store it leaves; written tells whether setItem
\* went through (it throws when the quota is exceeded).
set(st, k, v, written) == IF written THEN [st EXCEPT ![k] = Stored(v)] ELSE st
Bool(b) == IF b THEN "true" ELSE "false"

\* getFavorites(), getSearchHistory(): this.get(key) || [], where get
\* gives null for a missing entry.
getFavorites(st) == IF st["FAVORITES"].present THEN st["FAVORITES"].value ELSE <<>>
getSearchHistory(st) ==
    IF st["SEARCH_HISTORY"].present THEN st["SEARCH_HISTORY"].value ELSE <<>>

HasId(list, id) == \E i \in 1..Len(list) : list[i].mal_id = id

\* The favoriteData of addFavorite: the projection of the anime record
\* (of which mal_id is the one field the code reads) with its added_date,
\* new Date().toISOString(), held as the millisecond count it encodes.
favoriteData(id, t) == [mal_id |-> id, added_date |-> t]

\* unshift, then shift() in place of pop(): the new entry is the one dropped.
unshiftFavorite_DropsNew(favorites, entry) ==
    LET grown == <<entry>> \o favorites
    IN  IF Len(grown) > favoritesLimit THEN Tail(grown) ELSE grown

\* push() in place of unshift(): the new entry goes to the end.
unshiftFavorite_Appends(favorites, entry) ==
    LET grown == favorites \o <<entry>>
    IN  IF Len(grown) > favoritesLimit
        THEN SubSeq(grown, 1, Len(grown) - 1)
        ELSE grown

\* addFavorite lines 101-106: unshift, then pop once over the limit.
unshiftFavorite(favorites, entry) ==
    LET grown == <<entry>> \o favorites
    IN  IF Len(grown) > favoritesLimit
        THEN SubSeq(grown, 1, Len(grown) - 1)
        ELSE grown

Called(op, arg, r) ==
    /\ ops < MaxOps
    /\ ops' = ops + 1
    /\ lastOp' = [op |-> op, arg |-> arg, ret |-> r]
    /\ prevOp' = lastOp

\* addFavorite without the test for an entry that is already there.
addFavorite_NoExistsTest(id, written) ==
    /\ Called("addFavorite", id, Bool(written))
    /\ ls' = set(ls, "FAVORITES",
                 unshiftFavorite(getFavorites(ls), favoriteData(id, now)),
                 written)

\* addFavorite(anime)
addFavorite(id, written) ==
    LET favorites == getFavorites(ls)
    IN  IF HasId(favorites, id)
        THEN /\ Called("addFavorite", id, "false")
             /\ UNCHANGED ls
        ELSE /\ Called("addFavorite", id, Bool(written))
             /\ ls' = set(ls, "FAVORITES",
                          unshiftFavorite(favorites, favoriteData(id, now)),
                          written)

\* removeFavorite by splice(findIndex(...), 1): with the id not found the
\* index is -1 and the last entry is removed.
removeFavorite_Splice(id, written) ==
    LET favorites == getFavorites(ls)
        spliced == IF HasId(favorites, id)
                   THEN SelectSeq(favorites, LAMBDA fav : fav.mal_id # id)
                   ELSE SubSeq(favorites, 1, Len(favorites) - 1)
    IN  /\ Called("removeFavorite", id, Bool(written))
        /\ ls' = set(ls, "FAVORITES", spliced, written)

\* removeFavorite(animeId)
removeFavorite(id, written) ==
    LET filtered == SelectSeq(getFavorites(ls), LAMBDA fav : fav.mal_id # id)
    IN  /\ Called("removeFavorite", id, Bool(written))
        /\ ls' = set(ls, "FAVORITES", filtered, written)

\* clear(): removeItem for every key, then init().
clear(failKey) ==
    LET emptied == [k \in DOMAIN ls |-> Missing]
    IN  /\ Called("clear", failKey,
                  IF initThrows(emptied, failKey) THEN "threw" ELSE "undefined")
        /\ ls' = init(emptied, failKey)

\* Search terms are strings, held as sequences of characters.
Whitespace == {" "}
RECURSIVE TrimStart(_)
TrimStart(s) ==
    IF s # <<>> /\ Head(s) \in Whitespace THEN TrimStart(Tail(s)) ELSE s
RECURSIVE TrimEnd(_)
TrimEnd(s) ==
    IF s # <<>> /\ s[Len(s)] \in Whitespace
    THEN TrimEnd(SubSeq(s, 1, Len(s) - 1))
    ELSE s
trim(s) == TrimEnd(TrimStart(s))
LowerChar(ch) == CASE ch = "N" -> "n" [] ch = "A" -> "a" [] OTHER -> ch
toLowerCase(s) == [i \in 1..Len(s) |-> LowerChar(s[i])]

\* The terms the search box is given.
SearchTerms ==
    { <<>>, <<"N">>, <<" ", "n", " ">>, <<"N", "a">>, <<"n", "a">>,
      <<" ", "N", "A", " ">>, <<"a", "n">> }

\* addSearchTerm line 132: the guard that returns undefined.
termRejected(term) == term = <<>> \/ Len(trim(term)) < 2

\* The list written when the term is trimmed but not lower-cased.
searchHistoryWith_NoLowerCase(history, term, t) ==
    LET cleanTerm == trim(term)
        filtered == SelectSeq(history, LAMBDA item : item.term # cleanTerm)
        grown == <<[term |-> cleanTerm, originalTerm |-> trim(term),
                    timestamp |-> t]>> \o filtered
    IN  SubSeq(grown, 1, IF Len(grown) < searchHistoryLimit THEN Len(grown)
                         ELSE searchHistoryLimit)

\* slice(-20) in place of slice(0, 20): of 21 entries the newest is cut.
searchHistoryWith_KeepsTail(history, term, t) ==
    LET cleanTerm == toLowerCase(trim(term))
        filtered == SelectSeq(history, LAMBDA item : item.term # cleanTerm)
        grown == <<[term |-> cleanTerm, originalTerm |-> trim(term),
                    timestamp |-> t]>> \o filtered
    IN  IF Len(grown) <= searchHistoryLimit THEN grown
        ELSE SubSeq(grown, Len(grown) - searchHistoryLimit + 1, Len(grown))

\* addSearchTerm lines 134-148: the list that is written.
searchHistoryWith(history, term, t) ==
    LET cleanTerm == toLowerCase(trim(term))
        filtered == SelectSeq(history, LAMBDA item : item.term # cleanTerm)
        grown == <<[term |-> cleanTerm, originalTerm |-> trim(term),
                    timestamp |-> t]>> \o filtered
    IN  SubSeq(grown, 1, IF Len(grown) < searchHistoryLimit THEN Len(grown)
                         ELSE searchHistoryLimit)

\* addSearchTerm(term)
addSearchTerm(term, written) ==
    IF termRejected(term)
    THEN /\ Called("addSearchTerm", term, "undefined")
         /\ UNCHANGED ls
    ELSE /\ Called("addSearchTerm", term, Bool(written))
         /\ ls' = set(ls, "SEARCH_HISTORY",
                      searchHistoryWith(getSearchHistory(ls), term, now),
                      written)

\* clearSearchHistory()
clearSearchHistory(written) ==
    /\ Called("clearSearchHistory", 0, Bool(written))
    /\ ls' = set(ls, "SEARCH_HISTORY", <<>>, written)

\* The favorites an earlier session left behind: n entries, the most
\* recently added first, with ids n..1 added at the times n..1.
SavedFavorites(n) == [i \in 1..n |-> favoriteData(n + 1 - i, n + 1 - i)]
SavedCounts == {0, 1, favoritesLimit - 1, favoritesLimit}

\* The anime the user acts on: in the saved list or new to it.
AnimeIds == {1, favoritesLimit, favoritesLimit + 1, favoritesLimit + 2}

ApiUnused ==
    /\ lastRequestTime = 0
    /\ cache = <<>>
    /\ calls = [c \in 1..MaxCalls |-> IdleCall]

\* The state after `new Storage()`: init() has run over what localStorage
\* held (nothing on first use, or an earlier session's entries).
InitStore ==
    /\ now = rateLimitDelay
    /\ ticks = 0
    /\ \E n \in SavedCounts, first \in BOOLEAN :
          ls = init([k \in {StoreKeys[i] : i \in 1..4} |->
                        IF k = "FAVORITES" /\ ~first
                        THEN Stored(SavedFavorites(n)) ELSE Missing], 0)
    /\ ops = 0
    /\ lastOp = NoOp
    /\ prevOp = NoOp
    /\ ApiUnused
    /\ DetailUnused

NextFavorites ==
    \/ \E id \in AnimeIds, written \in BOOLEAN : addFavorite(id, written) /\ UNCHANGED <<apiVars, detailVars>>
    \/ \E id \in AnimeIds, written \in BOOLEAN : removeFavorite(id, written) /\ UNCHANGED <<apiVars, detailVars>>
    \/ \E failKey \in 0..4 : clear(failKey) /\ UNCHANGED <<apiVars, detailVars>>
    \/ \E d \in TickSteps : Tick(d)

NextSearch ==
    \/ \E term \in SearchTerms, written \in BOOLEAN : addSearchTerm(term, written) /\ UNCHANGED <<apiVars, detailVars>>
    \/ \E written \in BOOLEAN : clearSearchHistory(written) /\ UNCHANGED <<apiVars, detailVars>>
    \/ \E failKey \in 0..4 : clear(failKey) /\ UNCHANGED <<apiVars, detailVars>>
    \/ \E d \in TickSteps : Tick(d)

SpecFavorites == InitStore /\ [][NextFavorites]_vars
SpecSearch == InitStore /\ [][NextSearch]_vars

\* The search history an earlier session left behind: n entries, the
\* latest first, written at the times n..1. The oldest is "na"; the others
\* are runs of the letter z of different lengths.
SavedTerm(i, n) == IF i = n THEN <<"n", "a">> ELSE [j \in 1..(i + 1) |-> "z"]
SavedSearchHistory(n) ==
    [i \in 1..n |->
        [term |-> SavedTerm(i, n), originalTerm |-> SavedTerm(i, n),
         timestamp |-> n + 1 - i]]

\* The state after `new Storage()` over a search history that is empty,
\* one short of the limit, or at the limit.
InitSearchSaved ==
    /\ now = rateLimitDelay
    /\ ticks = 0
    /\ \E n \in {0, searchHistoryLimit - 1, searchHistoryLimit} :
          ls = init([k \in {StoreKeys[i] : i \in 1..4} |->
                        IF k = "SEARCH_HISTORY"
                        THEN Stored(SavedSearchHistory(n)) ELSE Missing], 0)
    /\ ops = 0
    /\ lastOp = NoOp
    /\ prevOp = NoOp
    /\ ApiUnused
    /\ DetailUnused

SpecSearchSaved == InitSearchSaved /\ [][NextSearch]_vars

---------------------------------------------------------------------------
(* AnimeDetailPage                                                         *)
(*                                                                         *)
(* Every jikanAPI method the page awaits resolves, in a later step, to a   *)
(* result of one of request()'s two shapes. The elements the page looks up *)
(* by id are taken to be in the document.                                  *)

\* JavaScript values that === tells apart by type.
JsString(v) == [type |-> "string", v |-> v]
JsNumber(v) == [type |-> "number", v |-> v]
JsNull == [type |-> "null"]
StrictEquals(a, b) == a = b

\* URLSearchParams.get('id'): null without the parameter, else its text.
UrlIds == {JsNull, JsString(7)}

\* slice(0, n)
Take(list, n) == SubSeq(list, 1, IF Len(list) < n THEN Len(list) ELSE n)

viewData(id, t) == [mal_id |-> id, viewed_date |-> t]

\* addToViewHistory without the filter that removes the older entry.
viewHistoryWith_NoFilter(history, id, t) ==
    Take(<<viewData(id, t)>> \o history, viewHistoryLimit)

\* addToViewHistory lines 163-182: the list that is written.
viewHistoryWith(history, id, t) ==
    Take(<<viewData(id, t)>>
             \o SelectSeq(history, LAMBDA item : item.mal_id # id),
         viewHistoryLimit)

getViewHistory(st) ==
    IF st["VIEW_HISTORY"].present THEN st["VIEW_HISTORY"].value ELSE <<>>

\* The records /anime/{id}/full may answer with: with or without genres,
\* and with no relations, a relation to a manga only, or a relation to
\* three anime.
RelatedEntry(type, id) == [type |-> type, mal_id |-> JsNumber(id)]
RelationChoices ==
    { <<>>,
      <<[entry |-> <<RelatedEntry("manga", 30)>>]>>,
      <<[entry |-> <<RelatedEntry("anime", 21), RelatedEntry("anime", 22),
                     RelatedEntry("anime", 23)>>]>> }
GenreChoices == { <<>>, <<[mal_id |-> JsNumber(1)]>> }
AnimeRecords ==
    { [mal_id |-> JsNumber(7), genres |-> g, relations |-> r] :
          g \in GenreChoices, r \in RelationChoices }

\* What a jikanAPI method resolves to, besides a list or a record: a
\* failure result, a success whose body is null, a success whose body has
\* no data member.
Failed(what) == FailureResult("error", what)
OddResults(what) == {Failed(what), SuccessResult(Null),
                     SuccessResult([json |-> "object"])}
Listing(list) == SuccessResult(JsonObject(list))

\* Reading result.data.data throws a TypeError when the body is null.
DataThrows(r) == r.success /\ r.data = Null
\* result.success && result.data.data
HasData(r) == r.success /\ r.data # Null /\ "data" \in DOMAIN r.data

PrimaryResults == OddResults("full") \cup {Listing(a) : a \in AnimeRecords}
CharacterResults ==
    OddResults("characters") \cup {Listing(<<>>), Listing(<<JsNumber(41)>>)}
RecommendationResults ==
    OddResults("recommendations")
        \cup {Listing(<<>>),
              Listing(<<[entry |-> JsNumber(51)]>>),
              Listing(<<[entry |-> JsNull]>>)}
GenreResults ==
    OddResults("genre")
        \cup {Listing(<<>>),
              Listing(<<[mal_id |-> JsNumber(7)], [mal_id |-> JsNumber(61)]>>)}
RelatedResults(id) ==
    {Failed("anime"), SuccessResult(Null), Listing([mal_id |-> id])}

AnyRelatedResult ==
    UNION {RelatedResults(JsNumber(id)) : id \in {21, 22}}

\* What a container holds: the kind of content and the cards, in order.
Untouched == [kind |-> "initial", cards |-> <<>>]
Cards(kind, cards) == [kind |-> kind, cards |-> cards]

\* showFallbackRecommendations: the six static entries.
fallbackAnime ==
    <<JsNumber(16498), JsNumber(11757), JsNumber(20), JsNumber(1535),
      JsNumber(5114), JsNumber(31964)>>
showFallbackRecommendations == Cards("static", Take(fallbackAnime, 6))

\* showEmptySection
showEmptySection == Cards("message", <<>>)

\* The secondary loads, as they stand before loadAnimeDetails starts them.
NoResult == [pending |-> TRUE]
IdleLoad ==
    [pc |-> "off", promise |-> "pending", result |-> NoResult,
     genreTried |-> FALSE, genreAsked |-> FALSE, genreResult |-> NoResult]
IdleRelated ==
    [pc |-> "off", promise |-> "pending", waiting |-> <<>>, settled |-> {},
     fragment |-> <<>>,
     genreTried |-> FALSE, genreAsked |-> FALSE, genreResult |-> NoResult]

\* The genre step that shows the static list at once, asking nothing.
enterGenreStep_StaticAtOnce(load, container, anime) ==
    [load |-> [load EXCEPT !.pc = "settled", !.promise = "fulfilled",
                           !.genreTried = TRUE],
     container |-> showFallbackRecommendations]

\* loadSimilarAnimeByGenre(container), up to its await: with a genre, the
\* request for the first genre is made; with none, the static list is shown.
\* It takes and gives a load and its container.
enterGenreStep(load, container, anime) ==
    IF anime.genres # <<>>
    THEN [load |-> [load EXCEPT !.pc = "awaitGenre", !.genreTried = TRUE,
                                !.genreAsked = TRUE],
          container |-> container]
    ELSE [load |-> [load EXCEPT !.pc = "settled", !.promise = "fulfilled",
                                !.genreTried = TRUE],
          container |-> showFallbackRecommendations]

\* loadSimilarAnimeByGenre lines 382-425: what the container is given once
\* getAnimeByGenre has resolved.
genreCards(r, animeId) ==
    IF HasData(r)
    THEN SelectSeq(Take(r.data.data, 6),
                   LAMBDA anime : ~StrictEquals(anime.mal_id, animeId))
    ELSE <<>>
genreContent(r, animeId) ==
    IF DataThrows(r) THEN showFallbackRecommendations
    ELSE IF genreCards(r, animeId) # <<>>
    THEN Cards("genre", [i \in 1..Len(genreCards(r, animeId)) |->
                            genreCards(r, animeId)[i].mal_id])
    ELSE showFallbackRecommendations

\* showError / showContent: the two display properties they set.
showError(d) == [d EXCEPT !.errorState = "block", !.animeContent = "none"]
showContent(d) == [d EXCEPT !.errorState = "none", !.animeContent = "block"]

\* hideLoading that leaves the entry in loadingStates.
hideLoading_KeepsEntry(d, id) == d

\* uiComponents.showLoading / hideLoading on loadingStates.
showLoading(d, id) == [d EXCEPT !.loadingStates = @ \cup {id}]
hideLoading(d, id) == [d EXCEPT !.loadingStates = @ \ {id}]

\* loadCharacters without its catch: the TypeError rejects the load.
loadCharactersDone_NoCatch(r, container) ==
    IF DataThrows(r) THEN [promise |-> "rejected", container |-> container]
    ELSE IF HasData(r)
    THEN [promise |-> "fulfilled",
          container |-> Cards("cards", Take(r.data.data, 12))]
    ELSE [promise |-> "fulfilled", container |-> container]

\* loadCharacters lines 240-262: the promise of the load and its container.
loadCharactersDone(r, container) ==
    IF DataThrows(r) THEN [promise |-> "fulfilled", container |-> container]
    ELSE IF HasData(r)
    THEN [promise |-> "fulfilled",
          container |-> Cards("cards", Take(r.data.data, 12))]
    ELSE [promise |-> "fulfilled", container |-> container]

\* loadRelatedAnime lines 325-344: the entries a request is made for.
RECURSIVE relatedRequests(_)
relatedRequests(relations) ==
    IF relations = <<>> THEN <<>>
    ELSE LET firstTwo == Take(Head(relations).entry, 2)
             anime == SelectSeq(firstTwo, LAMBDA en : en.type = "anime")
         IN  [i \in 1..Len(anime) |-> anime[i].mal_id]
                 \o relatedRequests(Tail(relations))

\* Promise.all(relatedPromises.slice(0, 6))
relatedAwaitLimit == 6

\* loadRelatedAnime, up to its await.
startRelated(anime, container) ==
    IF anime.relations = <<>>
    THEN [load |-> [IdleRelated EXCEPT !.pc = "settled",
                                       !.promise = "fulfilled"],
          container |-> showEmptySection]
    ELSE IF relatedRequests(anime.relations) # <<>>
    THEN [load |-> [IdleRelated EXCEPT !.pc = "awaitRelated",
                        !.waiting = relatedRequests(anime.relations)],
          container |-> container]
    ELSE enterGenreStep(IdleRelated, container, anime)

\* new AnimeDetailPage(): init() up to its first await.
PageLoads(id) ==
    /\ page.pc = "start"
    /\ IF id = JsNull
       THEN /\ page' = [page EXCEPT !.pc = "finished", !.animeId = id]
            /\ dom' = showError(dom)
       ELSE /\ page' = [page EXCEPT !.pc = "awaitPrimary", !.animeId = id]
            /\ dom' = showLoading(dom, "detail")
    /\ UNCHANGED <<subs, apiVars, storeVars>>

\* storage.addToViewHistory(this.animeData)
addToViewHistory(id, written) ==
    /\ Called("addToViewHistory", id, Bool(written))
    /\ ls' = set(ls, "VIEW_HISTORY",
                 viewHistoryWith(getViewHistory(ls), id, now), written)

\* loadAnimeDetails from getAnimeFullById's result to Promise.all.
PrimarySettles(r, written) ==
    /\ page.pc = "awaitPrimary"
    /\ IF DataThrows(r) \/ ~HasData(r)
       THEN /\ page' = [page EXCEPT !.pc = "finished", !.primary = r]
            /\ dom' = hideLoading(showError(dom), "detail")
            /\ UNCHANGED <<subs, storeVars>>
       ELSE LET anime == r.data.data
                rel == startRelated(anime, dom.relatedAnime)
            IN  /\ page' = [page EXCEPT !.pc = "awaitAll", !.primary = r,
                                        !.animeData = anime]
                /\ addToViewHistory(anime.mal_id, written)
                /\ subs' = [characters |-> [IdleLoad EXCEPT !.pc = "await"],
                            recommendations |-> [IdleLoad EXCEPT !.pc = "await"],
                            related |-> rel.load]
                /\ dom' = [dom EXCEPT !.relatedAnime = rel.container]
    /\ UNCHANGED apiVars

\* loadCharacters from getAnimeCharacters' result on.
CharactersSettle(r) ==
    /\ page.pc \in {"awaitAll", "finished"}
    /\ subs.characters.pc = "await"
    /\ LET done == loadCharactersDone(r, dom.charactersContainer)
       IN  /\ subs' = [subs EXCEPT !.characters.pc = "settled",
                                   !.characters.promise = done.promise,
                                   !.characters.result = r]
           /\ dom' = [dom EXCEPT !.charactersContainer = done.container]
    /\ UNCHANGED <<page, apiVars, storeVars>>

\* loadRecommendations from getAnimeRecommendations' result on.
RecommendationsSettle(r) ==
    /\ page.pc \in {"awaitAll", "finished"}
    /\ subs.recommendations.pc = "await"
    /\ LET load == [subs.recommendations EXCEPT !.result = r]
       IN  IF ~DataThrows(r) /\ HasData(r) /\ Len(r.data.data) > 0
           THEN LET shown == SelectSeq(Take(r.data.data, 6),
                                       LAMBDA rec : rec.entry # JsNull)
                IN  /\ subs' = [subs EXCEPT !.recommendations =
                           [load EXCEPT !.pc = "settled",
                                        !.promise = "fulfilled"]]
                    /\ dom' = [dom EXCEPT !.recommendationsContainer =
                           Cards("cards", [i \in 1..Len(shown) |->
                                              shown[i].entry])]
           ELSE LET step == enterGenreStep(load,
                                dom.recommendationsContainer, page.animeData)
                IN  /\ subs' = [subs EXCEPT !.recommendations = step.load]
                    /\ dom' = [dom EXCEPT !.recommendationsContainer =
                                              step.container]
    /\ UNCHANGED <<page, apiVars, storeVars>>

ContainerOf(which) ==
    IF which = "recommendations" THEN "recommendationsContainer"
    ELSE "relatedAnime"

\* loadSimilarAnimeByGenre from getAnimeByGenre's result on, for the
\* recommendations or for the related anime.
GenreSettles(which, r) ==
    /\ page.pc \in {"awaitAll", "finished"}
    /\ subs[which].pc = "awaitGenre"
    /\ subs' = [subs EXCEPT ![which].pc = "settled",
                            ![which].promise = "fulfilled",
                            ![which].genreResult = r]
    /\ dom' = [dom EXCEPT ![ContainerOf(which)] = genreContent(r, page.animeId)]
    /\ UNCHANGED <<page, apiVars, storeVars>>

\* One getAnimeById of loadRelatedAnime resolves and its then-callback
\* runs; with the last of those awaited, loadRelatedAnime goes on.
RelatedSettles(i, r) ==
    /\ page.pc \in {"awaitAll", "finished"}
    /\ subs.related.pc = "awaitRelated"
    /\ i \in 1..Len(subs.related.waiting)
    /\ i \notin subs.related.settled
    /\ r \in RelatedResults(subs.related.waiting[i])
    /\ LET rel == subs.related
           fragment == IF ~DataThrows(r) /\ HasData(r)
                       THEN Append(rel.fragment, r.data.data.mal_id)
                       ELSE rel.fragment
           settled == rel.settled \cup {i}
           awaited == 1..(IF Len(rel.waiting) < relatedAwaitLimit
                          THEN Len(rel.waiting) ELSE relatedAwaitLimit)
           load == [rel EXCEPT !.fragment = fragment, !.settled = settled]
       IN  IF ~(awaited \subseteq settled)
           THEN /\ subs' = [subs EXCEPT !.related = load]
                /\ UNCHANGED dom
           ELSE IF fragment # <<>>
           THEN /\ subs' = [subs EXCEPT !.related =
                       [load EXCEPT !.pc = "settled", !.promise = "fulfilled",
                                    !.fragment = <<>>]]
                /\ dom' = [dom EXCEPT !.relatedAnime = Cards("cards", fragment)]
           ELSE LET step == enterGenreStep(load, dom.relatedAnime,
                                           page.animeData)
                IN  /\ subs' = [subs EXCEPT !.related = step.load]
                    /\ dom' = [dom EXCEPT !.relatedAnime = step.container]
    /\ UNCHANGED <<page, apiVars, storeVars>>

Loads == {"characters", "recommendations", "related"}

\* loadAnimeDetails after Promise.all: showContent when the three loads
\* are fulfilled, the catch when one has rejected; hideLoading at the end.
AllSettle ==
    /\ page.pc = "awaitAll"
    /\ \/ \A w \in Loads : subs[w].promise = "fulfilled"
       \/ \E w \in Loads : subs[w].promise = "rejected"
    /\ page' = [page EXCEPT !.pc = "finished"]
    /\ dom' = IF \E w \in Loads : subs[w].promise = "rejected"
              THEN hideLoading(showError(dom), "detail")
              ELSE hideLoading(showContent(dom), "detail")
    /\ UNCHANGED <<subs, apiVars, storeVars>>

\* The page before DOMContentLoaded: the fields as the constructor sets
\* them, the elements as the document has them.
InitDetail ==
    /\ now = rateLimitDelay
    /\ ticks = 0
    /\ ApiUnused
    /\ ls = init([k \in {StoreKeys[i] : i \in 1..4} |-> Missing], 0)
    /\ ops = 0
    /\ lastOp = NoOp
    /\ prevOp = NoOp
    /\ page = [pc |-> "start", animeId |-> JsNull, animeData |-> JsNull,
               primary |-> NoResult]
    /\ subs = [characters |-> IdleLoad, recommendations |-> IdleLoad,
               related |-> IdleRelated]
    /\ dom = [errorState |-> "initial", animeContent |-> "initial",
              charactersContainer |-> Untouched,
              recommendationsContainer |-> Untouched,
              relatedAnime |-> Untouched,
              loadingStates |-> {}]

NextDetail ==
    \/ \E id \in UrlIds : PageLoads(id)
    \/ \E r \in PrimaryResults, written \in BOOLEAN : PrimarySettles(r, written)
    \/ \E r \in CharacterResults : CharactersSettle(r)
    \/ \E r \in RecommendationResults : RecommendationsSettle(r)
    \/ \E which \in {"recommendations", "related"}, r \in GenreResults : GenreSettles(which, r)
    \/ \E i \in 1..2, r \in AnyRelatedResult : RelatedSettles(i, r)
    \/ AllSettle

SpecDetail == InitDetail /\ [][NextDetail]_vars

\* Every request the page awaits settles, and every continuation runs.
SpecDetailFair == SpecDetail /\ WF_vars(NextDetail)

---------------------------------------------------------------------------
(* Storage: construction over what localStorage holds, the preferences     *)
(* and the view history                                                    *)

\* getPreferences(): this.get(key) || the defaults.
getPreferences(st) ==
    IF st["PREFERENCES"].present THEN st["PREFERENCES"].value
    ELSE DefaultPreferences

\* { ...currentPreferences, ...newPreferences }
mergePreferences(current, new) ==
    [k \in DOMAIN current \cup DOMAIN new |->
        IF k \in DOMAIN new THEN new[k] ELSE current[k]]

\* The preferences a settings form hands over.
PreferenceKeys == {"theme", "language"}
PreferenceValues == {"light", "en"}
NewPreferences == { [theme |-> "light"], [theme |-> "dark", language |-> "ja"] }

\* What localStorage may hold when the script is loaded: each entry absent
\* (first use, or a clear() whose init() threw) or as an earlier session
\* wrote it.
RawStores ==
    { [k \in {StoreKeys[i] : i \in 1..4} |->
          CASE k = "FAVORITES" -> f [] k = "SEARCH_HISTORY" -> h
            [] k = "PREFERENCES" -> p [] OTHER -> v] :
        f \in {Missing, Stored(<<>>), Stored(SavedFavorites(1))},
        h \in {Missing, Stored(<<>>)},
        p \in {Missing, Stored(DefaultPreferences),
               Stored(mergePreferences(DefaultPreferences, [theme |-> "light"]))},
        v \in {Missing, Stored(<<>>), Stored(<<viewData(JsNumber(7), 1)>>)} }

\* `const storage = new Storage()`: the constructor runs init(). When a
\* setItem of init() throws, so does the constructor, and there is no
\* storage object until the script is loaded again.
NewStorage(failKey) ==
    /\ Called("init", failKey,
              IF initThrows(ls, failKey) THEN "threw" ELSE "undefined")
    /\ ls' = init(ls, failKey)

Constructed == lastOp.op # "none" /\ ~(lastOp.op = "init" /\ lastOp.ret = "threw")

\* updatePreference(key, value)
updatePreference(key, value, written) ==
    /\ Constructed
    /\ Called("updatePreference", key, Bool(written))
    /\ ls' = set(ls, "PREFERENCES",
                 mergePreferences(getPreferences(ls),
                                  [k \in {key} |-> value]),
                 written)

\* updatePreferences(newPreferences)
updatePreferences(newPreferences, written) ==
    /\ Constructed
    /\ Called("updatePreferences", newPreferences, Bool(written))
    /\ ls' = set(ls, "PREFERENCES",
                 mergePreferences(getPreferences(ls), newPreferences),
                 written)

\* clearViewHistory()
clearViewHistory(written) ==
    /\ Called("clearViewHistory", 0, Bool(written))
    /\ ls' = set(ls, "VIEW_HISTORY", <<>>, written)

\* The view history an earlier session left behind: n entries, the latest
\* first, of the anime n..1 viewed at the times n..1.
SavedViewHistory(n) ==
    [i \in 1..n |-> viewData(JsNumber(n + 1 - i), n + 1 - i)]

\* The anime whose detail page is opened: in the saved history or not.
ViewedIds ==
    {JsNumber(1), JsNumber(viewHistoryLimit), JsNumber(viewHistoryLimit + 1)}

\* The state after `new Storage()` over a view history that is empty, has
\* one entry, is one short of the limit, or at the limit.
InitView ==
    /\ now = rateLimitDelay
    /\ ticks = 0
    /\ \E n \in {0, 1, viewHistoryLimit - 1, viewHistoryLimit} :
          ls = init([k \in {StoreKeys[i] : i \in 1..4} |->
                        IF k = "VIEW_HISTORY"
                        THEN Stored(SavedViewHistory(n)) ELSE Missing], 0)
    /\ ops = 0
    /\ lastOp = NoOp
    /\ prevOp = NoOp
    /\ ApiUnused
    /\ DetailUnused

NextView ==
    \/ \E id \in ViewedIds, written \in BOOLEAN : addToViewHistory(id, written) /\ UNCHANGED <<apiVars, detailVars>>
    \/ \E written \in BOOLEAN : clearViewHistory(written) /\ UNCHANGED <<apiVars, detailVars>>
    \/ \E failKey \in 0..4 : clear(failKey) /\ UNCHANGED <<apiVars, detailVars>>
    \/ \E d \in TickSteps : Tick(d)

SpecView == InitView /\ [][NextView]_vars

\* The script is about to be loaded.
InitLoad ==
    /\ now = rateLimitDelay
    /\ ticks = 0
    /\ ls \in RawStores
    /\ ops = 0
    /\ lastOp = NoOp
    /\ prevOp = NoOp
    /\ ApiUnused
    /\ DetailUnused

NextLoad ==
    \/ \E failKey \in 0..4 : NewStorage(failKey) /\ UNCHANGED <<apiVars, detailVars>>
    \/ \E key \in PreferenceKeys, value \in PreferenceValues, written \in BOOLEAN : updatePreference(key, value, written) /\ UNCHANGED <<apiVars, detailVars>>
    \/ \E newPreferences \in NewPreferences, written \in BOOLEAN : updatePreferences(newPreferences, written) /\ UNCHANGED <<apiVars, detailVars>>
    \/ \E written \in BOOLEAN : Constructed /\ clearViewHistory(written) /\ UNCHANGED <<apiVars, detailVars>>
    \/ \E failKey \in 0..4 : Constructed /\ clear(failKey) /\ UNCHANGED <<apiVars, detailVars>>

SpecLoad == InitLoad /\ [][NextLoad]_vars

---------------------------------------------------------------------------
(* Properties of the API client.                                           *)

Calls == 1..MaxCalls
WasFetched(c) == calls[c].fetchedAt # NoTime
Succeeded(c) ==
    /\ calls[c].pc = "done"
    /\ calls[c].promise.state = "fulfilled"
    /\ calls[c].promise.value.success = TRUE
GotPayload(c) == Succeeded(c) /\ Truthy(calls[c].promise.value.data)
\* Call c is entered (its synchronous first segment runs) in this step.
Issued(c) == calls[c].pc = "idle" /\ calls'[c].pc # "idle"

\* C1: the dispatch times of any two outbound fetches differ by at least
\* rateLimitDelay, whatever the concurrency of the callers.
C1_DispatchSpacing ==
    \A c1, c2 \in Calls :
        (c1 # c2 /\ WasFetched(c1) /\ WasFetched(c2)) =>
            \/ calls[c1].fetchedAt - calls[c2].fetchedAt >= rateLimitDelay
            \/ calls[c2].fetchedAt - calls[c1].fetchedAt >= rateLimitDelay

\* C2 as stated: two cached requests for one endpoint, the second issued
\* less than cacheTimeout after the first, both answered with a payload,
\* never make two fetches, also when the second is issued while the first
\* is in flight.
C2_OneFetchAlways ==
    \A c1, c2 \in Calls :
        (/\ c1 < c2
         /\ calls[c1].useCache /\ calls[c2].useCache
         /\ calls[c1].endpoint = calls[c2].endpoint
         /\ GotPayload(c1) /\ GotPayload(c2)
         /\ calls[c2].started - calls[c1].started < cacheTimeout)
        => ~(WasFetched(c1) /\ WasFetched(c2))

\* C2 amended: a cached request issued after an earlier cached request for
\* the same endpoint has fetched and completed with a payload, and less
\* than cacheTimeout after that one was issued, dispatches no fetch and
\* resolves at once to the cached payload.
C2_OneFetchAfterCompletion ==
    [][\A c1, c2 \in Calls :
        (/\ Issued(c2) /\ calls'[c2].useCache
         /\ calls[c1].useCache
         /\ calls[c1].endpoint = calls'[c2].endpoint
         /\ GotPayload(c1) /\ WasFetched(c1)
         /\ now - calls[c1].started < cacheTimeout)
        => /\ calls'[c2].pc = "done"
           /\ calls'[c2].fetchedAt = NoTime
           /\ calls'[c2].promise.state = "fulfilled"
           /\ calls'[c2].promise.value.success = TRUE
           /\ Truthy(calls'[c2].promise.value.data)]_vars

\* A second cached call for the endpoint was answered from the cache.
C2_Witness ==
    \E c1, c2 \in Calls :
        /\ c1 < c2
        /\ calls[c1].useCache /\ calls[c2].useCache
        /\ calls[c1].endpoint = calls[c2].endpoint
        /\ GotPayload(c1) /\ WasFetched(c1)
        /\ GotPayload(c2) /\ ~WasFetched(c2)
        /\ calls[c2].started > calls[c1].started

\* C3: request(e, true) returns a cached payload only while the entry's
\* age is below cacheTimeout; a lookup of an entry of that age or older
\* removes it, returns nothing from the cache and goes on to the network
\* (the call sleeps in the rate limiter or is dispatched).
C3_CacheExpiry ==
    [][\A c \in Calls :
        (Issued(c) /\ calls'[c].useCache) =>
            LET e == calls'[c].endpoint
            IN  /\ calls'[c].pc = "done" =>
                    /\ CacheHas(cache, e)
                    /\ now - CacheGet(cache, e).timestamp < cacheTimeout
                    /\ calls'[c].promise =
                           Fulfilled(SuccessResult(CacheGet(cache, e).data))
                /\ (CacheHas(cache, e)
                    /\ now - CacheGet(cache, e).timestamp >= cacheTimeout) =>
                    /\ ~CacheHas(cache', e)
                    /\ calls'[c].pc \in {"waiting", "inflight"}]_vars

\* A cached call found its endpoint's entry expired, evicted it and went
\* on to the network.
C3_Witness ==
    \E c1, c2 \in Calls :
        /\ c1 # c2
        /\ calls[c1].useCache /\ GotPayload(c1) /\ WasFetched(c1)
        /\ calls[c2].useCache
        /\ calls[c2].endpoint = calls[c1].endpoint
        /\ calls[c2].pc \in {"waiting", "inflight"}
        /\ calls[c2].started - calls[c1].fetchedAt >= cacheTimeout
        /\ ~CacheHas(cache, calls[c1].endpoint)

\* C4: request() never rejects: a finished call is fulfilled with
\* {success: true, data} or with {success: false, error, endpoint}, for
\* every outcome of the fetch.
C4_NeverRejects ==
    \A c \in Calls :
        /\ calls[c].promise.state # "rejected"
        /\ calls[c].pc = "done" =>
            /\ calls[c].promise.state = "fulfilled"
            /\ \/ \E d \in Payloads :
                      calls[c].promise.value = SuccessResult(d)
               \/ \E m \in {"non2xx", "transport", "SyntaxError"} :
                      calls[c].promise.value =
                          FailureResult(m, calls[c].endpoint)

\* Every kind of failure, and a success, have been seen.
C4_Witness ==
    \E c1, c2 \in Calls :
        /\ calls[c1].pc = "done" /\ calls[c2].pc = "done"
        /\ calls[c1].promise.value.success = FALSE
        /\ calls[c1].promise.value.error = "SyntaxError"
        /\ calls[c2].promise.value.success = FALSE
        /\ calls[c2].promise.value.error \in {"non2xx", "transport"}

---------------------------------------------------------------------------
(* Properties of the store.                                                *)

\* A Storage method named op runs in this step.
Runs(op) == ops' = ops + 1 /\ lastOp'.op = op

\* C5: addFavorite of an anime whose mal_id is already in the favorites
\* returns false and leaves the stored list as it was: same entries, same
\* order, same added_date values.
C5_DuplicateAddIsNoOp ==
    [][(Runs("addFavorite") /\ HasId(getFavorites(ls), lastOp'.arg)) =>
           /\ lastOp'.ret = "false"
           /\ ls' = ls]_vars

\* A favorite added earlier was added again, and refused.
C5_Witness ==
    /\ lastOp.op = "addFavorite" /\ lastOp.ret = "false"
    /\ prevOp.op = "addFavorite" /\ prevOp.ret = "true"
    /\ prevOp.arg = lastOp.arg
    /\ \E i \in 1..Len(getFavorites(ls)) :
          /\ getFavorites(ls)[i].mal_id = lastOp.arg
          /\ getFavorites(ls)[i].added_date < now

\* C6: the favorites never hold more than favoritesLimit entries; and when
\* addFavorite stores a new mal_id into a list of exactly favoritesLimit
\* entries, the new entry is kept at the head and the entry dropped is the
\* last one, which is the one added earliest.
C6_FavoritesCapped ==
    /\ [](Len(getFavorites(ls)) <= favoritesLimit)
    /\ [][LET old == getFavorites(ls)
          IN  (/\ Runs("addFavorite") /\ lastOp'.ret = "true"
               /\ Len(old) = favoritesLimit)
              => /\ getFavorites(ls') =
                       <<favoriteData(lastOp'.arg, now)>>
                           \o SubSeq(old, 1, favoritesLimit - 1)
                 /\ \A i \in 1..Len(old) :
                       old[Len(old)].added_date <= old[i].added_date]_vars

\* A full list took a new favorite and lost its oldest one.
C6_Witness ==
    LET favs == getFavorites(ls)
    IN  /\ lastOp.op = "addFavorite" /\ lastOp.ret = "true"
        /\ lastOp.arg = favoritesLimit + 1
        /\ Len(favs) = favoritesLimit
        /\ favs[1].mal_id = favoritesLimit + 1
        /\ favs[Len(favs)].mal_id = 2

\* The two last calls were addSearchTerm, with terms of one normalized form.
SameTermTwice ==
    /\ lastOp.op = "addSearchTerm" /\ prevOp.op = "addSearchTerm"
    /\ toLowerCase(trim(prevOp.arg)) = toLowerCase(trim(lastOp.arg))
    /\ lastOp.ret # "false"

\* The history holds one entry for the last term's normalized form: at
\* the head, with the trimmed text of the last call as its originalTerm.
LastTermCollapsed ==
    LET history == getSearchHistory(ls)
        clean == toLowerCase(trim(lastOp.arg))
    IN  /\ Cardinality({i \in 1..Len(history) : history[i].term = clean}) = 1
        /\ history[1].term = clean
        /\ history[1].originalTerm = trim(lastOp.arg)

\* C7 as stated: after addSearchTerm with two terms of equal normalized
\* form, whatever the terms, the history holds exactly one entry for that
\* form, at the head, with the second call's trimmed text.
C7_AnyTermCollapses == SameTermTwice => LastTermCollapsed

\* C7 amended: the same, for terms whose trimmed form has at least two
\* characters, when the write of the second call succeeds (shorter terms
\* are not recorded at all).
C7_LongTermCollapses ==
    (SameTermTwice /\ Len(trim(lastOp.arg)) >= 2) => LastTermCollapsed

\* "Na" and then " NA " were added: one entry, reading "NA".
C7_Witness ==
    /\ SameTermTwice
    /\ prevOp.ret = "true" /\ lastOp.ret = "true"
    /\ prevOp.arg # lastOp.arg
    /\ trim(prevOp.arg) # trim(lastOp.arg)
    /\ Len(getSearchHistory(ls)) = 1
    /\ getSearchHistory(ls)[1].originalTerm = trim(lastOp.arg)

---------------------------------------------------------------------------
(* Properties of the detail page.                                          *)

Arrived(r) == "success" \in DOMAIN r
IsFailure(r) == Arrived(r) /\ ~r.success
IsEmptyList(r) ==
    Arrived(r) /\ r.success /\ r.data # Null /\ "data" \in DOMAIN r.data
        /\ r.data.data = <<>>
\* The genre request failed, brought no items, or made no card.
GenreGaveNothing(r) ==
    /\ Arrived(r)
    /\ \/ IsFailure(r)
       \/ r.data = Null
       \/ "data" \notin DOMAIN r.data
       \/ r.data.data = <<>>
       \/ \A i \in 1..Len(r.data.data) : r.data.data[i].mal_id = page.animeId

Terminal == page.pc = "finished"
ContentShown == dom.animeContent = "block" /\ dom.errorState = "none"
ErrorShown == dom.errorState = "block" /\ dom.animeContent = "none"
PrimaryOk ==
    /\ Arrived(page.primary) /\ page.primary.success
    /\ page.primary.data # Null /\ "data" \in DOMAIN page.primary.data

\* C8: when getAnimeRecommendations gives a failure result or an empty
\* list, the genre-similarity step runs next, asking getAnimeByGenre for
\* the first genre when the anime has one; when that request fails, brings
\* no items or makes no card, or the anime has no genre, the static list
\* of six is what the recommendations container holds; and the static
\* list is never there before the genre-similarity step was tried.
C8_FallbackChain ==
    LET rec == subs.recommendations
        shown == dom.recommendationsContainer
        noGenre == page.animeData.genres = <<>>
    IN  /\ (IsFailure(rec.result) \/ IsEmptyList(rec.result)) =>
               /\ rec.genreTried
               /\ rec.pc \in {"awaitGenre", "settled"}
               /\ ~noGenre => rec.genreAsked
               /\ rec.pc = "awaitGenre" => shown = Untouched
               /\ rec.pc = "settled" =>
                      IF noGenre \/ GenreGaveNothing(rec.genreResult)
                      THEN shown = Cards("static", fallbackAnime)
                      ELSE shown.kind = "genre"
        /\ shown.kind = "static" =>
               /\ rec.genreTried
               /\ noGenre \/ GenreGaveNothing(rec.genreResult)

\* The recommendations failed, the genre request was made and failed too,
\* and the static list is shown.
C8_Witness ==
    /\ IsFailure(subs.recommendations.result)
    /\ subs.recommendations.genreAsked
    /\ IsFailure(subs.recommendations.genreResult)
    /\ dom.recommendationsContainer = Cards("static", fallbackAnime)

\* C9: with every request settling, a page load goes idle, loading, then
\* content or error: it ends, with exactly one of the two displays (content
\* shown and error hidden, or error shown and content hidden), never both,
\* once and for all; the two elements are not touched before; 'detail' is
\* in loadingStates exactly while the load is under way.
C9_Lifecycle ==
    /\ <>Terminal
    /\ [](Terminal => /\ ContentShown \/ ErrorShown
                      /\ "detail" \notin dom.loadingStates)
    /\ [](~(dom.errorState = "block" /\ dom.animeContent = "block"))
    /\ [](~Terminal => /\ dom.errorState = "initial"
                       /\ dom.animeContent = "initial")
    /\ []("detail" \in dom.loadingStates <=>
              page.pc \in {"awaitPrimary", "awaitAll"})
    /\ [][Terminal => /\ Terminal'
                      /\ dom'.errorState = dom.errorState
                      /\ dom'.animeContent = dom.animeContent]_vars
    /\ [][(page.pc = "start" /\ page'.pc # "start" /\ page'.animeId # JsNull)
              => page'.pc = "awaitPrimary"]_vars

\* A load that went through loading has ended in the error display, with
\* 'detail' cleared.
C9_Witness ==
    /\ Terminal /\ ErrorShown
    /\ Arrived(page.primary)
    /\ dom.loadingStates = {}

\* C10: once getAnimeFullById has succeeded, the page ends in the content
\* display and the error display is never shown, whatever the secondary
\* requests resolve to.
C10_ContentDespiteFailures ==
    /\ [](PrimaryOk => dom.errorState # "block")
    /\ [](PrimaryOk /\ Terminal => ContentShown)
    /\ PrimaryOk ~> (Terminal /\ ContentShown)

\* The content is shown although the characters came with a null body and
\* the recommendations, the related anime and the genre request failed.
C10_Witness ==
    /\ PrimaryOk /\ Terminal /\ ContentShown
    /\ subs.characters.result = SuccessResult(Null)
    /\ IsFailure(subs.recommendations.result)
    /\ IsFailure(subs.recommendations.genreResult)
    /\ IsFailure(subs.related.genreResult)

---------------------------------------------------------------------------
(* Properties of the store's writes and of init().                         *)

\* C11: a Storage write whose localStorage.setItem fails does not throw,
\* returns false and leaves the store as it was; this for init() as for
\* the updates of the preferences and the clearing of the view history.
C11_FailedWriteReturnsFalse ==
    [][\A op \in {"init", "updatePreference", "updatePreferences",
                  "clearViewHistory"} :
          Runs(op) =>
              /\ lastOp'.ret # "threw"
              /\ (lastOp'.ret = "false" => ls' = ls)
              /\ (op = "init" /\ initThrows(ls, lastOp'.arg)
                      => lastOp'.ret = "false" /\ ls' = ls)]_vars

\* C20: init() leaves every entry that is present as it is and writes the
\* initial value (an empty list, the default preferences) under every entry
\* that is missing; an init() that follows an init() changes nothing.
C20_InitIdempotent ==
    /\ [][Runs("init") =>
            \A k \in DOMAIN ls :
                /\ ls[k].present => ls'[k] = ls[k]
                /\ (~ls[k].present /\ lastOp'.ret # "threw")
                       => ls'[k] = Stored(InitialValue(k))]_vars
    /\ [][(Runs("init") /\ lastOp.op = "init"
             /\ lastOp.ret # "threw" /\ lastOp'.ret # "threw") => ls' = ls]_vars

\* init() has run twice over a store that held favorites and changed
\* preferences but no search history.
C20_Witness ==
    /\ lastOp.op = "init" /\ lastOp.ret = "undefined"
    /\ prevOp.op = "init" /\ prevOp.ret = "undefined"
    /\ Len(getFavorites(ls)) = 1
    /\ getPreferences(ls).theme = "light"
    /\ ls["SEARCH_HISTORY"] = Stored(<<>>)

---------------------------------------------------------------------------
(* Further properties of the API client.                                   *)

\* The fetch of call c is dispatched and its response has not arrived.
InFlight(c) == calls[c].pc = "inflight"

\* C12: at every moment at most one fetch is awaiting its response: no
\* request is dispatched while an earlier one is still in flight.
C12_OneInFlight == Cardinality({c \in Calls : InFlight(c)}) <= 1

\* Endpoint e enters the cache in this step.
Inserted(e) == ~CacheHas(cache, e) /\ CacheHas(cache', e)

\* C13: the cache never holds more than cacheLimit entries, and an
\* insertion into a cache that holds cacheLimit entries removes exactly the
\* entry inserted earliest (the first key of the Map), whatever its
\* timestamp and however recently it was read; the others keep their order
\* and the new entry comes last.
C13_CacheCapped ==
    /\ [](Len(cache) <= cacheLimit)
    /\ [][\A e \in FullEndpoints :
            (Inserted(e) /\ Len(cache) = cacheLimit) =>
                /\ Len(cache') = cacheLimit
                /\ SubSeq(cache', 1, cacheLimit - 1) = Tail(cache)
                /\ cache'[cacheLimit].key = e]_vars

\* The first entry of a full cache was read (a cache hit) by one call, and
\* the response of another call then pushed it out.
C13_Witness ==
    /\ Len(cache) = cacheLimit
    /\ ~CacheHas(cache, FirstCached)
    /\ \E c1, c2 \in Calls :
          /\ calls[c1].endpoint = FirstCached /\ GotPayload(c1) /\ ~WasFetched(c1)
          /\ calls[c2].endpoint # FirstCached /\ GotPayload(c2) /\ WasFetched(c2)
          /\ CacheHas(cache, calls[c2].endpoint)

\* Call c, made with useCache = false, runs one of its segments in this step.
UncachedCallSteps(c) ==
    calls'[c] # calls[c] /\ calls'[c].pc # "idle" /\ ~calls'[c].useCache

\* C14: a request made with useCache = false leaves the cache as it is in
\* every one of its steps, is never answered without a fetch, and goes on
\* to the rate limiter as soon as it is issued, also when the cache holds
\* an unexpired entry for its endpoint.
C14_UncachedBypassesCache ==
    /\ [][\A c \in Calls : UncachedCallSteps(c) => cache' = cache]_vars
    /\ [][\A c \in Calls : (Issued(c) /\ ~calls'[c].useCache)
                               => calls'[c].pc \in {"waiting", "inflight"}]_vars
    /\ [](\A c \in Calls : (calls[c].pc = "done" /\ ~calls[c].useCache)
                               => WasFetched(c))

\* An uncached request for an endpoint was fetched and answered while the
\* cache held an unexpired entry for that endpoint, stored before the
\* request was issued.
C14_Witness ==
    \E c \in Calls :
        /\ ~calls[c].useCache /\ GotPayload(c) /\ WasFetched(c)
        /\ CacheHas(cache, calls[c].endpoint)
        /\ CacheGet(cache, calls[c].endpoint).timestamp <= calls[c].started
        /\ calls[c].started - CacheGet(cache, calls[c].endpoint).timestamp
               < cacheTimeout

\* The fetch of call c failed: a status outside 2xx, or no response at all.
FetchFailed(c) ==
    /\ calls[c].pc = "done"
    /\ calls[c].promise.state = "fulfilled"
    /\ calls[c].promise.value.success = FALSE
    /\ calls[c].promise.value.error \in {"non2xx", "transport"}

\* C15: when the fetch of a call comes back with a status outside 2xx or
\* fails in transport, the call is over in that very step: its promise is
\* fulfilled with success false, an error message and the endpoint of the
\* call, and the one dispatch it made is never followed by another.
C15_FailureWithoutRetry ==
    /\ [][\A c \in Calls :
            (InFlight(c) /\ calls'[c].pc # "inflight" /\ calls'[c].pc # "parsing")
                => /\ FetchFailed(c)'
                   /\ calls'[c].promise.value.endpoint = calls[c].endpoint
                   /\ calls'[c].fetchedAt = calls[c].fetchedAt]_vars
    /\ [][\A c \in Calls : calls[c].pc = "done" => calls'[c] = calls[c]]_vars
    /\ [](\A c \in Calls : FetchFailed(c) => WasFetched(c))

\* Both kinds of failure have happened, each to a call that was dispatched
\* once.
C15_Witness ==
    \E c1, c2 \in Calls :
        /\ FetchFailed(c1) /\ calls[c1].promise.value.error = "non2xx"
        /\ FetchFailed(c2) /\ calls[c2].promise.value.error = "transport"
        /\ calls[c1].promise.value.endpoint = calls[c1].endpoint
        /\ WasFetched(c1) /\ WasFetched(c2)

---------------------------------------------------------------------------
(* Further properties of the stored lists.                                 *)

\* C16: the favorites never hold two entries with one mal_id and are in the
\* order of their adding, the latest first; an addFavorite that returns
\* true puts the new entry at index 0 and keeps the others in their order
\* (the last of them leaving when the list is full).
C16_FavoritesUniqueNewestFirst ==
    /\ [](LET favorites == getFavorites(ls)
          IN  /\ Cardinality({favorites[i].mal_id : i \in 1..Len(favorites)})
                     = Len(favorites)
              /\ \A i \in 1..(Len(favorites) - 1) :
                    favorites[i].added_date >= favorites[i + 1].added_date)
    /\ [][(Runs("addFavorite") /\ lastOp'.ret = "true") =>
            LET before == getFavorites(ls)
                after == getFavorites(ls')
            IN  /\ after[1].mal_id = lastOp'.arg
                /\ Tail(after) = Take(before, favoritesLimit - 1)]_vars

\* An anime was removed from a list of several favorites and then added
\* again, at a later time.
C16_Witness ==
    /\ prevOp.op = "removeFavorite" /\ prevOp.ret = "true"
    /\ lastOp.op = "addFavorite" /\ lastOp.ret = "true"
    /\ prevOp.arg = lastOp.arg
    /\ Len(getFavorites(ls)) >= favoritesLimit - 1
    /\ getFavorites(ls)[1].added_date > rateLimitDelay

\* C17: removeFavorite(id) for an id that is not in the favorites leaves
\* the list as it is, a removeFavorite(id) that returns true leaves no
\* entry with that id, and so a second removeFavorite(id) after it changes
\* nothing.
C17_RemoveIdempotent ==
    [][Runs("removeFavorite") =>
          /\ ~HasId(getFavorites(ls), lastOp'.arg)
                 => getFavorites(ls') = getFavorites(ls)
          /\ lastOp'.ret = "true" => ~HasId(getFavorites(ls'), lastOp'.arg)
          /\ (lastOp.op = "removeFavorite" /\ lastOp.ret = "true"
                /\ lastOp.arg = lastOp'.arg)
                 => getFavorites(ls') = getFavorites(ls)]_vars

\* The same favorite was removed twice in a row from a full list.
C17_Witness ==
    /\ prevOp.op = "removeFavorite" /\ prevOp.ret = "true"
    /\ lastOp.op = "removeFavorite" /\ lastOp.ret = "true"
    /\ prevOp.arg = 1 /\ lastOp.arg = 1
    /\ Len(getFavorites(ls)) = favoritesLimit - 1

\* C18: the search history never holds more than searchHistoryLimit
\* entries nor two entries with one normalized term, and is in the order of
\* the adding, the latest first; an addSearchTerm that returns true puts
\* its term at index 0, takes the older entry of that term out and, of the
\* others, keeps the first searchHistoryLimit - 1 in their order.
C18_SearchHistoryCapped ==
    /\ [](LET history == getSearchHistory(ls)
          IN  /\ Len(history) <= searchHistoryLimit
              /\ \A i, j \in 1..Len(history) :
                    i # j => history[i].term # history[j].term
              /\ \A i \in 1..(Len(history) - 1) :
                    history[i].timestamp >= history[i + 1].timestamp)
    /\ [][(Runs("addSearchTerm") /\ lastOp'.ret = "true") =>
            LET before == getSearchHistory(ls)
                after == getSearchHistory(ls')
                cleanTerm == toLowerCase(trim(lastOp'.arg))
            IN  /\ after[1].term = cleanTerm
                /\ Tail(after) =
                       Take(SelectSeq(before, LAMBDA item : item.term # cleanTerm),
                            searchHistoryLimit - 1)]_vars

\* On a full history the oldest term was searched again, which moved it to
\* the front, and then a term that was not in the history was added, which
\* dropped the entry that was last.
C18_Witness ==
    /\ prevOp.op = "addSearchTerm" /\ prevOp.ret = "true"
    /\ lastOp.op = "addSearchTerm" /\ lastOp.ret = "true"
    /\ Len(getSearchHistory(ls)) = searchHistoryLimit
    /\ getSearchHistory(ls)[1].term = <<"a", "n">>
    /\ getSearchHistory(ls)[2].term = <<"n", "a">>
    /\ getSearchHistory(ls)[2].originalTerm = <<"N", "A">>
    /\ getSearchHistory(ls)[searchHistoryLimit].term
           = SavedTerm(searchHistoryLimit - 2, searchHistoryLimit)

\* C19: the view history never holds more than viewHistoryLimit entries nor
\* two entries with one mal_id, and is in the order of the viewing, the
\* latest first; an addToViewHistory that returns true puts the anime at
\* index 0, takes its older entry out and, of the others, keeps the first
\* viewHistoryLimit - 1 in their order.
C19_ViewHistoryCapped ==
    /\ [](LET history == getViewHistory(ls)
          IN  /\ Len(history) <= viewHistoryLimit
              /\ \A i, j \in 1..Len(history) :
                    i # j => history[i].mal_id # history[j].mal_id
              /\ \A i \in 1..(Len(history) - 1) :
                    history[i].viewed_date >= history[i + 1].viewed_date)
    /\ [][(Runs("addToViewHistory") /\ lastOp'.ret = "true") =>
            LET before == getViewHistory(ls)
                after == getViewHistory(ls')
                id == lastOp'.arg
            IN  /\ after[1].mal_id = id
                /\ after[1].viewed_date = now
                /\ Tail(after) =
                       Take(SelectSeq(before, LAMBDA item : item.mal_id # id),
                            viewHistoryLimit - 1)]_vars

\* The anime that was last in a full view history was viewed again, later:
\* it is now first, once, and the list is as long as it was.
C19_Witness ==
    LET history == getViewHistory(ls)
    IN  /\ lastOp.op = "addToViewHistory" /\ lastOp.ret = "true"
        /\ Len(history) = viewHistoryLimit
        /\ history[1].mal_id = JsNumber(1)
        /\ history[1].viewed_date > rateLimitDelay
        /\ history[2].mal_id = JsNumber(viewHistoryLimit)
        /\ history[viewHistoryLimit].mal_id = JsNumber(2)

---------------------------------------------------------------------------
(* Further properties of the detail page.                                  *)

\* A container shows something: cards, or a message in their place.
Filled(container) ==
    \/ container.kind = "message"
    \/ container.kind \in {"cards", "genre", "static"} /\ container.cards # <<>>

\* C21: once loadRecommendations and loadRelatedAnime have resolved, the
\* recommendations container and the related container each hold cards
\* (of the response, of the genre, or the static ones) or a message,
\* whatever the responses were.
C21_ContainersNeverEmpty ==
    (subs.recommendations.pc = "settled" /\ subs.related.pc = "settled")
        => Filled(dom.recommendationsContainer) /\ Filled(dom.relatedAnime)

\* The place of an id among the requests loadRelatedAnime made.
RequestIndex(id) ==
    CHOOSE i \in 1..Len(subs.related.waiting) : subs.related.waiting[i] = id

\* C22: the three loads write to three different containers, and what a
\* section shows in the end does not depend on the order in which the
\* responses arrive: the related cards stand in the order of their
\* requests, which is the order they have when the responses arrive in the
\* order of the requests.
C22_ArrivalOrderIrrelevant ==
    /\ Cardinality({"charactersContainer", ContainerOf("recommendations"),
                    ContainerOf("related")}) = 3
    /\ (subs.related.pc = "settled" /\ dom.relatedAnime.kind = "cards") =>
           \A a, b \in 1..Len(dom.relatedAnime.cards) :
               a < b => RequestIndex(dom.relatedAnime.cards[a])
                            < RequestIndex(dom.relatedAnime.cards[b])

\* C30: the cards of the genre fallback never include the anime of the
\* page, the one whose id the URL names.
C30_GenreSkipsCurrentAnime ==
    \A name \in {"recommendationsContainer", "relatedAnime"} :
        (dom[name].kind = "genre" /\ page.animeId # JsNull) =>
            \A i \in 1..Len(dom[name].cards) :
                dom[name].cards[i].v # page.animeId.v

---------------------------------------------------------------------------
(* The cache and the results of the API client.                            *)

\* The cache entry of endpoint e is written in this step.
Stored_(e) ==
    /\ CacheHas(cache', e)
    /\ ~CacheHas(cache, e) \/ CacheGet(cache', e) # CacheGet(cache, e)

\* Call c ends in a failure result.
Failure(c) ==
    /\ calls[c].pc = "done"
    /\ calls[c].promise.state = "fulfilled"
    /\ calls[c].promise.value.success = FALSE

\* C23: a cache entry is written only in the step in which a fetched call
\* for that endpoint ends in success, and with the payload of that call; a
\* step in which a call ends in failure (status, transport, unparsable
\* body) leaves the cache as it is; and a call answered from the cache gets
\* the payload the cache holds for its endpoint.
C23_OnlySuccessesCached ==
    /\ [][\A e \in Endpoints :
            Stored_(e) =>
                \E c \in Calls :
                    /\ calls[c].pc = "parsing" /\ calls[c].endpoint = e
                    /\ WasFetched(c) /\ GotPayload(c)'
                    /\ calls'[c].promise.value.data = CacheGet(cache', e).data]_vars
    /\ [][\A c \in Calls :
            (calls[c].pc # "done" /\ Failure(c)') => cache' = cache]_vars
    /\ [][\A c \in Calls :
            (Issued(c) /\ calls'[c].pc = "done") =>
                /\ CacheHas(cache, calls'[c].endpoint)
                /\ calls'[c].promise.value
                       = SuccessResult(CacheGet(cache, calls'[c].endpoint).data)]_vars

\* A cached request failed on an unparsable body; a later cached request
\* for the same endpoint found no entry, was fetched, and its payload is
\* what the cache now holds.
C23_Witness ==
    \E c1, c2 \in Calls :
        /\ calls[c1].useCache /\ Failure(c1)
        /\ calls[c1].promise.value.error = "SyntaxError"
        /\ calls[c2].useCache /\ calls[c2].endpoint = calls[c1].endpoint
        /\ calls[c2].started > calls[c1].fetchedAt
        /\ WasFetched(c2) /\ GotPayload(c2)
        /\ CacheHas(cache, calls[c2].endpoint)

---------------------------------------------------------------------------
(* UIComponents.initSearch: the search box and its suggestion list         *)

\* searchTimeout: no timer, or the timer of the input handler with the
\* query it will pass to showSuggestions.
NoTimer == [armed |-> FALSE]
Timer(query) == [armed |-> TRUE, query |-> query]

\* What is typed into the box (e.target.value).
TypedTexts == { <<"n">>, <<"n", "a">>, <<"a", "n">>, <<"n", "a", " ">> }

\* What request() resolves to for the suggestions of a query: a failure, a
\* success with a null body or a body without data, an empty list, a list
\* of one anime (whose title here is the query, to tell the lists apart).
SuggestionResults(query) ==
    OddResults("suggest")
        \cup {Listing(<<>>),
              Listing(<<[mal_id |-> JsNumber(1), title |-> query]>>)}
AnySuggestionResult ==
    UNION {SuggestionResults(trim(text)) : text \in TypedTexts}

\* getSearchSuggestions lines 286-301, from request()'s result on: the
\* value the method returns, or the TypeError that result.data.data.map
\* throws when the body is null or has no data.
getSearchSuggestionsDone(result) ==
    IF ~result.success THEN Return(result)
    ELSE IF DataThrows(result) \/ ~HasData(result) THEN Throw("TypeError")
    ELSE Return(Listing([i \in 1..Len(result.data.data) |->
                            [mal_id |-> result.data.data[i].mal_id,
                             title |-> result.data.data[i].title]]))

\* showSuggestions lines 615-627: what the list is after the await.
showSuggestionsDone(result, query, currentQuery, list) ==
    IF result.success /\ currentQuery = query
    THEN IF Len(result.data.data) > 0
         THEN [display |-> "block", items |-> result.data.data]
         ELSE [list EXCEPT !.display = "none"]
    ELSE list

\* The input handler: the pending timer is cleared and a new one is set
\* for the trimmed text.
InputTyped(text) ==
    /\ page' = [page EXCEPT !.input = text, !.searchTimeout = Timer(trim(text))]
    /\ UNCHANGED <<subs, dom, apiVars, storeVars>>

\* The timer fires: showSuggestions(query) up to its await. (A query this
\* long is never answered by getSearchSuggestions without a request.)
showSuggestions ==
    /\ page.searchTimeout.armed
    /\ LET query == page.searchTimeout.query
       IN  IF Len(query) < 2
           THEN /\ page' = [page EXCEPT !.searchTimeout = NoTimer]
                /\ dom' = [dom EXCEPT !.display = "none"]
                /\ UNCHANGED subs
           ELSE /\ Len(subs) < MaxCalls
                /\ page' = [page EXCEPT !.searchTimeout = NoTimer,
                                        !.currentQuery = query]
                /\ subs' = Append(subs, [query |-> query, pc |-> "await",
                                         promise |-> "pending"])
                /\ UNCHANGED dom
    /\ UNCHANGED <<apiVars, storeVars>>

\* request() resolves for the i-th showSuggestions: getSearchSuggestions
\* finishes and showSuggestions goes on, or is rejected with it.
SuggestionsArrive(i, r) ==
    /\ i \in 1..Len(subs)
    /\ subs[i].pc = "await"
    /\ r \in SuggestionResults(subs[i].query)
    /\ LET outcome == getSearchSuggestionsDone(r)
       IN  IF outcome.kind = "throw"
           THEN /\ subs' = [subs EXCEPT ![i].pc = "done",
                                        ![i].promise = "rejected"]
                /\ UNCHANGED dom
           ELSE /\ subs' = [subs EXCEPT ![i].pc = "done",
                                        ![i].promise = "fulfilled"]
                /\ dom' = showSuggestionsDone(outcome.value, subs[i].query,
                                              page.currentQuery, dom)
    /\ UNCHANGED <<page, apiVars, storeVars>>

\* Escape, a click outside the box, or a click on a suggestion.
hideSuggestions ==
    /\ dom' = [dom EXCEPT !.display = "none"]
    /\ UNCHANGED <<page, subs, apiVars, storeVars>>

\* The state after uiComponents.init().
InitSuggest ==
    /\ now = rateLimitDelay
    /\ ticks = 0
    /\ ApiUnused
    /\ StoreUnused
    /\ page = [input |-> <<>>, searchTimeout |-> NoTimer, currentQuery |-> <<>>]
    /\ subs = <<>>
    /\ dom = [display |-> "none", items |-> <<>>]

NextSuggest ==
    \/ \E text \in TypedTexts : InputTyped(text)
    \/ showSuggestions
    \/ \E i \in 1..MaxCalls, r \in AnySuggestionResult : SuggestionsArrive(i, r)
    \/ hideSuggestions

SpecSuggest == InitSuggest /\ [][NextSuggest]_vars

---------------------------------------------------------------------------
(* Properties of the search box.                                           *)

\* C24: no public method of the API client rejects, getSearchSuggestions
\* as the search box calls it included, whatever request() resolves to.
C24_SuggestionsNeverReject ==
    \A i \in 1..Len(subs) : subs[i].promise # "rejected"

\* C27: whenever the suggestion list is populated, it is with the results
\* for the query that stands in the search box at that moment; a response
\* for an earlier query is not displayed once the input has changed.
C27_OnlyLatestQueryShown ==
    [][(dom'.items # dom.items /\ dom'.display = "block") =>
          \A i \in 1..Len(dom'.items) : dom'.items[i].title = trim(page.input)]_vars

---------------------------------------------------------------------------
(* AnimeVaultApp: the trending grid and the genre grid of the homepage     *)

\* limit of getTrendingAnime, getPopularAnime, getAnimeByGenre, searchAnime
pageLimit == 25
\* loadTrendingAnime: slice(0, 60) and `uniqueAnime.length === 60`
trendingBatch == 60
\* loadGenreContent: `anime.length === 25`
genreBatch == 25

\* The data-genre of the filter buttons (lower case, as getGenreId reads
\* them after toLowerCase): one that is no key of genreMap included.
FilterGenres == {"all", "action", "mecha"}
genreMap == [action |-> 1, adventure |-> 2, comedy |-> 4, drama |-> 8,
             fantasy |-> 10, romance |-> 22, slice_of_life |-> 36,
             supernatural |-> 37]
\* genreMap[...] || null
getGenreId(genreName) ==
    IF genreName \in DOMAIN genreMap THEN JsNumber(genreMap[genreName]) ELSE JsNull

\* The request loadGenreContent sends for a genre and a page.
genreRequest(genre, p) ==
    IF genre = "all" THEN [method |-> "getPopularAnime", page |-> p]
    ELSE IF getGenreId(genre) # JsNull
         THEN [method |-> "getAnimeByGenre", genreId |-> getGenreId(genre), page |-> p]
         ELSE [method |-> "searchAnime", query |-> genre, page |-> p]

\* The anime a list of the API holds on its page p when the page is full,
\* and when the list ends one anime into the page.
FullPage(list, p) ==
    [k \in 1..pageLimit |->
        [mal_id |-> (p - 1) * pageLimit + k, list |-> list, page |-> p]]
LastPage(list, p) == Take(FullPage(list, p), 1)

\* What request() resolves to for page p of a list: a failure, a success
\* with a null body or a body without data, a full page, the last page,
\* an empty page.
ResultShapes == {"failure", "null", "object", "full", "last", "empty"}
PageResult(shape, list, p) ==
    CASE shape = "failure" -> Failed(list)
      [] shape = "null" -> SuccessResult(Null)
      [] shape = "object" -> SuccessResult([json |-> "object"])
      [] shape = "full" -> Listing(FullPage(list, p))
      [] shape = "last" -> Listing(LastPage(list, p))
      [] shape = "empty" -> Listing(<<>>)
\* An object's integer keys are enumerated in ascending order.
RECURSIVE Ascending(_)
Ascending(S) ==
    IF S = {} THEN <<>>
    ELSE LET least == CHOOSE x \in S : \A y \in S : x <= y
         IN  <<least>> \o Ascending(S \ {least})

\* uniqueAnimeMap[item.mal_id] = item for each item, then Object.values.
uniqueByMalId(anime) ==
    LET keys == Ascending({anime[i].mal_id : i \in 1..Len(anime)})
        lastWith(id) == CHOOSE i \in 1..Len(anime) :
                            /\ anime[i].mal_id = id
                            /\ \A j \in (i + 1)..Len(anime) : anime[j].mal_id # id
    IN  [k \in 1..Len(keys) |-> anime[lastWith(keys[k])]]

\* A grid: the skeleton cards of showLoadingCards, or anime cards.
Grid(skeleton, cards) == [skeleton |-> skeleton, cards |-> cards]
showLoadingCards == Grid(TRUE, <<>>)
displayAnimeCards(animeList) == Grid(FALSE, animeList)
appendAnimeCards(grid, animeList) == [grid EXCEPT !.cards = @ \o animeList]

\* A load that stands at its await. `initial` marks the loads that
\* loadInitialContent awaits.
Load(fn, genre, p, append, initial) ==
    [fn |-> fn, genre |-> genre, page |-> p, append |-> append,
     initial |-> initial,
     request |-> IF fn = "trending"
                 THEN [method |-> "getTrendingAnime", page |-> p]
                 ELSE genreRequest(genre, p)]

Without(loads, i) == SubSeq(loads, 1, i - 1) \o SubSeq(loads, i + 1, Len(loads))

\* loadTrendingAnime(page, append) up to its await.
loadTrendingAnimeStart(p, append, initial) ==
    /\ subs' = Append(subs, Load("trending", "all", p, append, initial))
    /\ dom' = IF append THEN dom
              ELSE [dom EXCEPT !.trendingGrid = showLoadingCards]

\* loadGenreContent(genre, page, append) up to its await, on the loads and
\* the elements as they stand.
loadGenreContentStart(loads, elements, genre, p, append, initial) ==
    /\ subs' = Append(loads, Load("genre", genre, p, append, initial))
    /\ dom' = IF append THEN elements
              ELSE [elements EXCEPT !.genreGrid = showLoadingCards]

\* loadInitialContent, once the hero showcase and the carousel are loaded:
\* loadTrendingAnime().
loadInitialContent ==
    /\ page.pc = "start"
    /\ page' = [page EXCEPT !.pc = "trending", !.isLoading = TRUE]
    /\ loadTrendingAnimeStart(1, FALSE, TRUE)
    /\ UNCHANGED <<apiVars, storeVars>>

\* Both requests of a loadTrendingAnime have resolved: the rest of the
\* function. When loadInitialContent awaited it, loadGenreContent() starts
\* before any other event is handled.
TrendingSettles(i, shape1, shape2) ==
    /\ i \in 1..Len(subs)
    /\ subs[i].fn = "trending"
    /\ LET load == subs[i]
           r1 == PageResult(shape1, "trending", load.page)
           r2 == PageResult(shape2, "trending", load.page + 1)
           threw == DataThrows(r1) \/ DataThrows(r2)
           anime == (IF HasData(r1) THEN r1.data.data ELSE <<>>)
                        \o (IF HasData(r2) THEN r2.data.data ELSE <<>>)
           uniqueAnime == Take(uniqueByMalId(anime), trendingBatch)
           rendered == ~threw /\ Len(uniqueAnime) > 0
           grid == IF ~rendered THEN dom.trendingGrid
                   ELSE IF load.append
                        THEN appendAnimeCards(dom.trendingGrid, uniqueAnime)
                        ELSE displayAnimeCards(uniqueAnime)
           elements == [dom EXCEPT !.trendingGrid = grid]
           fields == IF rendered
                     THEN [page EXCEPT
                             !.hasMoreData = (Len(uniqueAnime) = trendingBatch),
                             !.currentPage = load.page,
                             !.isLoading = FALSE]
                     ELSE [page EXCEPT !.isLoading = FALSE]
       IN  IF load.initial
           THEN /\ page' = [fields EXCEPT !.pc = "genres", !.isLoading = TRUE]
                /\ loadGenreContentStart(Without(subs, i), elements,
                                         "all", 1, FALSE, TRUE)
           ELSE /\ page' = fields
                /\ subs' = Without(subs, i)
                /\ dom' = elements
    /\ UNCHANGED <<apiVars, storeVars>>

\* The request of a loadGenreContent has resolved: the rest of the function.
GenreContentSettles(i, shape) ==
    /\ i \in 1..Len(subs)
    /\ subs[i].fn = "genre"
    /\ LET load == subs[i]
           r == PageResult(shape, load.genre, load.page)
           rendered == ~DataThrows(r) /\ HasData(r)
           anime == r.data.data
           grid == IF ~rendered THEN dom.genreGrid
                   ELSE IF load.append
                        THEN appendAnimeCards(dom.genreGrid, anime)
                        ELSE displayAnimeCards(anime)
           fields == IF rendered
                     THEN [page EXCEPT
                             !.hasMoreData = (Len(anime) = genreBatch),
                             !.currentPage = load.page,
                             !.currentGenre = load.genre,
                             !.isLoading = FALSE]
                     ELSE [page EXCEPT !.isLoading = FALSE]
       IN  /\ page' = IF load.initial THEN [fields EXCEPT !.pc = "done"]
                      ELSE fields
           /\ subs' = Without(subs, i)
           /\ dom' = [dom EXCEPT !.genreGrid = grid]
    /\ UNCHANGED <<apiVars, storeVars>>

\* A click on a filter button, or a genreFilter event.
handleGenreFilter(genre) ==
    /\ page.loads < MaxCalls
    /\ page' = [page EXCEPT !.currentGenre = genre,
                            !.currentPage = 1,
                            !.currentSection = "genres",
                            !.isLoading = TRUE,
                            !.loads = @ + 1]
    /\ loadGenreContentStart(subs, [dom EXCEPT !.activeFilter = genre],
                             genre, 1, FALSE, FALSE)
    /\ UNCHANGED <<apiVars, storeVars>>

\* A click on the load-more button: loadMoreTrending up to the await of
\* loadTrendingAnime(nextPage, true).
loadMoreTrending ==
    /\ page.loads < MaxCalls
    /\ ~(page.isLoading \/ ~page.hasMoreData)
    /\ page' = [page EXCEPT !.loads = @ + 1]
    /\ loadTrendingAnimeStart(page.currentPage + 1, TRUE, FALSE)
    /\ UNCHANGED <<apiVars, storeVars>>

\* loadMoreGenreContent up to the await of loadGenreContent.
loadMoreGenreContent ==
    /\ page.loads < MaxCalls
    /\ ~(page.isLoading \/ ~page.hasMoreData)
    /\ page' = [page EXCEPT !.loads = @ + 1]
    /\ loadGenreContentStart(subs, dom, page.currentGenre,
                             page.currentPage + 1, TRUE, FALSE)
    /\ UNCHANGED <<apiVars, storeVars>>

\* A scroll event near the end of the document.
handleScroll ==
    /\ ~(page.isLoading \/ ~page.hasMoreData)
    /\ IF page.currentSection = "trending" THEN loadMoreTrending
       ELSE /\ page.currentSection = "genres"
            /\ page.currentGenre # "all"
            /\ loadMoreGenreContent

\* No filter button has been clicked.
NoFilter == "none"

\* The state after the constructor's assignments, init() standing at the
\* first await of loadInitialContent. `loads` counts the loads the user
\* has started.
InitApp ==
    /\ now = rateLimitDelay
    /\ ticks = 0
    /\ ApiUnused
    /\ StoreUnused
    /\ page = [currentPage |-> 1, currentGenre |-> "all", isLoading |-> FALSE,
               hasMoreData |-> TRUE, currentSection |-> "trending",
               pc |-> "start", loads |-> 0]
    /\ subs = <<>>
    /\ dom = [trendingGrid |-> Grid(FALSE, <<>>), genreGrid |-> Grid(FALSE, <<>>),
              activeFilter |-> NoFilter]

NextApp ==
    \/ loadInitialContent
    \/ \E i \in 1..(MaxCalls + 1), shape1, shape2 \in ResultShapes :
          TrendingSettles(i, shape1, shape2)
    \/ \E i \in 1..(MaxCalls + 1), shape \in ResultShapes :
          GenreContentSettles(i, shape)
    \/ \E genre \in FilterGenres : handleGenreFilter(genre)
    \/ loadMoreTrending
    \/ handleScroll

SpecApp == InitApp /\ [][NextApp]_vars

---------------------------------------------------------------------------
(* Properties of the homepage grids.                                       *)

\* C25: load-more requests exclude one another: at most one paginated
\* (append mode) load, of the trending grid or of the genre grid, is in
\* flight at any time.
C25_OneLoadMoreInFlight ==
    Cardinality({i \in 1..Len(subs) : subs[i].append}) <= 1

\* C26: once every response for the genre grid has arrived, the grid shows
\* the results of the genre selected last (the active filter button) and
\* currentGenre is that genre, whatever the order of arrival.
C26_LastGenreWins ==
    (dom.activeFilter # NoFilter
        /\ \A i \in 1..Len(subs) : subs[i].fn # "genre")
    => /\ page.currentGenre = dom.activeFilter
       /\ \A k \in 1..Len(dom.genreGrid.cards) :
              dom.genreGrid.cards[k].list = dom.activeFilter

\* C28: no page of the trending list is rendered twice in the trending
\* grid, over the initial load and every loadMoreTrending: no anime has two
\* cards there.
C28_TrendingPageRenderedOnce ==
    LET cards == dom.trendingGrid.cards
    IN  Cardinality({cards[k].mal_id : k \in 1..Len(cards)}) = Len(cards)

\* C29: when loadTrendingAnime renders two full pages (pageLimit anime
\* each), hasMoreData is true afterwards.
C29_FullBatchHasMore ==
    [][(Len(dom'.trendingGrid.cards) - Len(dom.trendingGrid.cards) = 2 * pageLimit)
          => page'.hasMoreData]_vars

====
